---- MODULE Spec2Model ----
(***************************************************************************)
(* A model of the Codxen runtime: the entity/component/scene graph         *)
(* (core/Entity.ts), the InputManager (input/InputManager.ts), the         *)
(* GameEngine frame loop and render-mode switch (index.ts), and the        *)
(* Rigidbody2D integration step (core/components.ts, core/Math.ts).        *)
(*                                                                         *)
(* Objects are identified by small integers: entities by 1..NumEntities,   *)
(* component instances by the order of their construction (1, 2, ...),     *)
(* renderer/InputManager instances likewise.  0 stands for null.           *)
(***************************************************************************)
EXTENDS Integers, Sequences, FiniteSets, TLC

\* ------------------------------------------------------------------ bounds
NumEntities == 3      \* entities that exist
MaxLinks == 3         \* total length of the root list and all child lists
MaxComps == 3         \* component instances ever constructed
NumHosts == 2         \* entities whose registry CompSpec works on
NumKeys == 2          \* keyboard keys the host reports
NumButtons == 1       \* pointer buttons the host reports
NumTouches == 1       \* touch identifiers the host reports
MaxObjs == 3          \* renderer (and InputManager) instances ever constructed
MaxPending == 2       \* host frame callbacks pending at once
MaxTime == 2          \* the last value of the clock, in seconds
MaxFrames == 2        \* frames counted within one FpsWindow
MaxCalls == 4         \* calls made on the Rigidbody2D
NumVersions == 2      \* plugin objects that carry the same name
MaxAwaiting == 2      \* init (unload) calls of one name suspended at their await

Null == 0
Entities == 1..NumEntities
Names == {"a", "b"}
NoName == ""          \* addEntity called without a name (or with '')
Types == {"A", "B"}   \* component classes used as registry keys
NoType == "none"
CompIds == 1..MaxComps
Hosts == 1..NumHosts
Keys == 1..NumKeys
Buttons == 0..(NumButtons - 1)
TouchIds == 1..NumTouches
\* positions relative to the canvas, as the listeners compute them
Points == {[x |-> 0, y |-> 0], [x |-> 3, y |-> 4]}
NoTouch == [x |-> -1, y |-> -1]   \* the touches Map has no entry for the id
Modes == {"2d", "3d"}
ContainerIds == {"game-container", "app"}
\* `currentTime - this.fpsUpdateTime >= 1000`, the clock counted in seconds
FpsWindow == 1
\* The call stack is finite: a recursion deeper than MaxStack frames throws
\* a RangeError.  No acyclic graph over NumEntities entities gets that deep.
MaxStack == NumEntities + 1

VARIABLES
    \* Entity fields
    name,            \* Entity.name
    active,          \* Entity.active
    children,        \* Entity.children, in list order
    parent,          \* Entity.parent
    components,      \* Entity.components: the Map, as its entries in insertion order
    \* Component fields
    compType,        \* the class of each constructed instance, NoType before construction
    compEntity,      \* Component.entity, per constructed instance
    isEnabled,       \* Component.isEnabled, per constructed instance
    nextComp,        \* the next instance `new Component()` constructs
    lastAdded,       \* the instance the last addComponent call returned
    \* Scene fields
    rootEntities,    \* Scene.rootEntities
    allEntities,     \* Scene.allEntities: name -> entity, Null when the key is absent
    updateLog,       \* component updates invoked by the last update call, in order
    \* one Rigidbody2D component and the Transform2D of its entity
    velocity, acceleration, mass, friction, isStatic, gravity,
    position,        \* Transform2D.position
    hasTransform,    \* whether this.entity?.getComponent(Transform2D) finds one
    calls,           \* the calls made on the Rigidbody2D so far
    \* PluginManager fields
    plugins,         \* PluginManager.plugins: name -> plugin, NoPlugin when absent
    initialized,     \* PluginManager.initialized
    initAwaiting,    \* per name, the init calls suspended at `await plugin.init(this)`
    unloadAwaiting,  \* per name, the unload calls suspended at `await plugin.destroy()`
    emitted,         \* the events the last call or resumption emitted
    pluginThrew,     \* whether the last PluginManager call threw
    pluginOrder,     \* the keys of PluginManager.plugins in insertion order
    initCalls,       \* per name, the init hook invocations since the name was
                     \* registered or an unload of it last completed
    hookCalled,      \* the hook the last PluginManager call invoked
    initAllPos,      \* the key an initAll() in flight has reached, 0 when none is
    initAllWaiting,  \* whether that initAll() is suspended inside an init hook
    \* InputManager fields (of the instance GameEngine.getInput() returns)
    keysPressed, keysJustPressed, keysJustReleased,
    mouseButtonsPressed, mouseButtonsJustPressed, mouseButtonsJustReleased,
    mousePosition,   \* InputManager.mousePosition
    touches,         \* InputManager.touches: identifier -> position, NoTouch when absent
    \* the page
    containers,      \* the container elements document.getElementById finds
    dom,             \* the canvases inside each container, in document order
    webglOK,         \* whether canvas.getContext('webgl') yields a context
    engineContainer, \* the containerId the GameEngine constructor was called with
    now,             \* performance.now()
    rafPending,      \* callbacks requested by requestAnimationFrame, not yet run
    \* GameEngine fields
    renderMode, canvas2DRenderer, webglRenderer, inputManager,
    isRunning, lastTime, frameCount, fps, fpsUpdateTime,
    nextObj,         \* the next renderer instance constructed
    pc,              \* the position of control inside gameLoop, "idle" outside
    frameLog,        \* the steps the current iteration has performed
    renderedBy,      \* the renderer instance whose render() ran last
    lastSwitch,      \* how the last switchRenderMode call ended
    lastStart        \* what the last start() call found: "none" before any call

entityVars == <<name, active, children, parent>>
compVars == <<components, compType, compEntity, isEnabled, nextComp, lastAdded>>
sceneVars == <<rootEntities, allEntities>>
physVars == <<velocity, acceleration, mass, friction, isStatic, gravity, position,
              hasTransform, calls>>
hookVars == <<initCalls, hookCalled>>
initAllVars == <<initAllPos, initAllWaiting>>
pluginVars == <<plugins, initialized, initAwaiting, unloadAwaiting, emitted, pluginThrew,
                pluginOrder, hookVars, initAllVars>>
graphVars == <<entityVars, compVars, sceneVars, updateLog, physVars, pluginVars>>
keyVars == <<keysPressed, keysJustPressed, keysJustReleased>>
mouseVars == <<mouseButtonsPressed, mouseButtonsJustPressed, mouseButtonsJustReleased>>
pointerVars == <<mousePosition, touches>>
inputVars == <<keyVars, mouseVars, pointerVars>>
pageVars == <<containers, dom, webglOK, engineContainer>>
rendererVars == <<renderMode, canvas2DRenderer, webglRenderer, inputManager, nextObj, lastSwitch>>
timeVars == <<lastTime, frameCount, fps, fpsUpdateTime>>
loopVars == <<isRunning, pc, rafPending, frameLog, renderedBy, lastStart>>
engineVars == <<pageVars, rendererVars, timeVars, loopVars, now>>

\* ------------------------------------------------------------ sequences
Range(s) == {s[i] : i \in DOMAIN s}

\* Array.prototype.indexOf: the first index holding x, 0 when there is none
IndexOf(s, x) ==
    IF x \in Range(s) THEN CHOOSE i \in DOMAIN s : s[i] = x /\ \A j \in 1..(i - 1) : s[j] # x
    ELSE 0

\* Array.prototype.splice(index, 1)
Splice(s, i) == [j \in 1..(Len(s) - 1) |-> IF j < i THEN s[j] ELSE s[j + 1]]

RECURSIVE SumLen(_, _)
SumLen(f, S) ==
    IF S = {} THEN 0
    ELSE LET e == CHOOSE x \in S : TRUE IN Len(f[e]) + SumLen(f, S \ {e})

TotalLinks == Len(rootEntities) + SumLen(children, Entities)

\* ------------------------------------------------------ component registry
\* Map.get(Component) || null
getComponentIn(reg, T) ==
    IF \E i \in DOMAIN reg : reg[i].type = T
    THEN (CHOOSE c \in Range(reg) : c.type = T).inst
    ELSE Null

getComponent(e, T) == getComponentIn(components[e], T)

\* Array.from(this.components.values())
getComponentsIn(reg) == [i \in DOMAIN reg |-> reg[i].inst]

getComponents(e) == getComponentsIn(components[e])

\* A registry that keeps the first instance stored under a key
MapSetKeepFirst(reg, T, inst) ==
    IF \E i \in DOMAIN reg : reg[i].type = T THEN reg
    ELSE Append(reg, [type |-> T, inst |-> inst])

\* A registry that moves a key stored again to the end of the order
MapSetMoveToEnd(reg, T, inst) ==
    Append(SelectSeq(reg, LAMBDA c : c.type # T), [type |-> T, inst |-> inst])

\* Map.set(key, value): a key already present keeps its place in the
\* iteration order and gets the new value; a new key goes to the end.
MapSet(reg, T, inst) ==
    IF \E i \in DOMAIN reg : reg[i].type = T
    THEN [i \in DOMAIN reg |-> IF reg[i].type = T THEN [type |-> T, inst |-> inst] ELSE reg[i]]
    ELSE Append(reg, [type |-> T, inst |-> inst])

\* Map.delete(key)
MapDelete(reg, T) == SelectSeq(reg, LAMBDA c : c.type # T)

\* Entity.addComponent: construct, set the back-reference, store, return
AddComponent(e, T) ==
    /\ nextComp <= MaxComps
    /\ compType' = [compType EXCEPT ![nextComp] = T]
    /\ compEntity' = [compEntity EXCEPT ![nextComp] = e]
    /\ components' = [components EXCEPT ![e] = MapSet(@, T, nextComp)]
    /\ lastAdded' = nextComp
    /\ nextComp' = nextComp + 1
    /\ UNCHANGED <<isEnabled, entityVars, sceneVars, updateLog>>
    /\ UNCHANGED <<physVars, pluginVars, inputVars, engineVars>>

\* Entity.removeComponent
RemoveComponent(e, T) ==
    /\ components' = [components EXCEPT ![e] = MapDelete(@, T)]
    /\ UNCHANGED <<compType, compEntity, isEnabled, nextComp, lastAdded, entityVars, sceneVars, updateLog>>
    /\ UNCHANGED <<physVars, pluginVars, inputVars, engineVars>>

\* component.isEnabled = b (a public field)
SetEnabled(c, b) ==
    /\ c < nextComp
    /\ isEnabled[c] # b
    /\ isEnabled' = [isEnabled EXCEPT ![c] = b]
    /\ UNCHANGED <<components, compType, compEntity, nextComp, lastAdded, entityVars, sceneVars, updateLog>>
    /\ UNCHANGED <<physVars, pluginVars, inputVars, engineVars>>

\* entity.active = b (a public field)
SetActive(e, b) ==
    /\ active[e] # b
    /\ active' = [active EXCEPT ![e] = b]
    /\ UNCHANGED <<name, children, parent, compVars, sceneVars, updateLog>>
    /\ UNCHANGED <<physVars, pluginVars, inputVars, engineVars>>

\* ------------------------------------------------------------ entity tree
\* Entity.addChild
AddChild(p, c) ==
    /\ TotalLinks < MaxLinks
    /\ parent' = [parent EXCEPT ![c] = p]
    /\ children' = [children EXCEPT ![p] = Append(@, c)]
    /\ UNCHANGED <<name, active, compVars, sceneVars, updateLog>>
    /\ UNCHANGED <<physVars, pluginVars, inputVars, engineVars>>

\* The child list of p and the parent field of c after p.removeChild(c)
removeChildIn(kids, par, p, c) ==
    LET index == IndexOf(kids[p], c) IN
    IF index > 0
    THEN [kids |-> [kids EXCEPT ![p] = Splice(@, index)], par |-> [par EXCEPT ![c] = Null]]
    ELSE [kids |-> kids, par |-> par]

\* Entity.removeChild
RemoveChild(p, c) ==
    LET r == removeChildIn(children, parent, p, c) IN
    /\ children' = r.kids
    /\ parent' = r.par
    /\ UNCHANGED <<name, active, compVars, sceneVars, updateLog>>
    /\ UNCHANGED <<physVars, pluginVars, inputVars, engineVars>>

\* Entity.destroy
Destroy(e) ==
    LET r == IF parent[e] # Null
             THEN removeChildIn(children, parent, parent[e], e)
             ELSE [kids |-> children, par |-> parent] IN
    /\ parent' = r.par
    /\ components' = [components EXCEPT ![e] = <<>>]
    /\ children' = [r.kids EXCEPT ![e] = <<>>]
    /\ UNCHANGED <<name, active, compType, compEntity, isEnabled, nextComp, lastAdded, sceneVars, updateLog>>
    /\ UNCHANGED <<physVars, pluginVars, inputVars, engineVars>>

\* ------------------------------------------------------------ Entity.update
\* The component updates Entity.update invokes, appended to the log st.log;
\* st.ok turns FALSE when the recursion exceeds the call stack (the
\* RangeError then unwinds every frame, so nothing further is invoked).
RECURSIVE entityUpdate(_, _, _)
RECURSIVE childrenUpdate(_, _, _, _)
entityUpdate(e, st, depth) ==
    IF ~st.ok THEN st
    ELSE IF depth > MaxStack THEN [st EXCEPT !.ok = FALSE]
    ELSE IF ~active[e] THEN st
    ELSE LET cs == SelectSeq(getComponents(e), LAMBDA c : isEnabled[c])
         IN childrenUpdate(children[e], 1, [st EXCEPT !.log = @ \o cs], depth)

childrenUpdate(kids, i, st, depth) ==
    IF i > Len(kids) \/ ~st.ok THEN st
    ELSE childrenUpdate(kids, i + 1, entityUpdate(kids[i], st, depth + 1), depth)

\* Entity.update called on e
EntityUpdate(e) ==
    /\ updateLog' = entityUpdate(e, [log |-> <<>>, ok |-> TRUE], 1).log
    /\ UNCHANGED <<entityVars, compVars, sceneVars>>
    /\ UNCHANGED <<physVars, pluginVars, inputVars, engineVars>>

\* ------------------------------------------------------------------ Scene
\* Scene.registerEntity: st.idx is the index, st.ok as in entityUpdate
RECURSIVE registerEntity(_, _, _)
RECURSIVE registerChildren(_, _, _, _)
registerEntity(e, st, depth) ==
    IF ~st.ok THEN st
    ELSE IF depth > MaxStack THEN [st EXCEPT !.ok = FALSE]
    ELSE registerChildren(children[e], 1, [st EXCEPT !.idx[st.nm[e]] = e], depth)

registerChildren(kids, i, st, depth) ==
    IF i > Len(kids) \/ ~st.ok THEN st
    ELSE registerChildren(kids, i + 1, registerEntity(kids[i], st, depth + 1), depth)

\* Scene.unregisterEntity
RECURSIVE unregisterEntity(_, _, _)
RECURSIVE unregisterChildren(_, _, _, _)
unregisterEntity(e, st, depth) ==
    IF ~st.ok THEN st
    ELSE IF depth > MaxStack THEN [st EXCEPT !.ok = FALSE]
    ELSE unregisterChildren(children[e], 1, [st EXCEPT !.idx[st.nm[e]] = Null], depth)

unregisterChildren(kids, i, st, depth) ==
    IF i > Len(kids) \/ ~st.ok THEN st
    ELSE unregisterChildren(kids, i + 1, unregisterEntity(kids[i], st, depth + 1), depth)

\* Scene.addEntity(entity, name?)
AddEntity(e, nm) ==
    LET entityName == IF nm # NoName THEN nm ELSE name[e]
        newName == [name EXCEPT ![e] = entityName] IN
    /\ TotalLinks < MaxLinks
    /\ name' = newName
    /\ rootEntities' = Append(rootEntities, e)
    /\ allEntities' = registerEntity(e, [idx |-> allEntities, nm |-> newName, ok |-> TRUE], 1).idx
    /\ UNCHANGED <<active, children, parent, compVars, updateLog>>
    /\ UNCHANGED <<physVars, pluginVars, inputVars, engineVars>>

\* Scene.removeEntity
RemoveEntity(e) ==
    LET index == IndexOf(rootEntities, e) IN
    /\ IF index > 0
       THEN /\ rootEntities' = Splice(rootEntities, index)
            /\ allEntities' =
                   unregisterEntity(e, [idx |-> allEntities, nm |-> name, ok |-> TRUE], 1).idx
       ELSE UNCHANGED <<rootEntities, allEntities>>
    /\ UNCHANGED <<entityVars, compVars, updateLog>>
    /\ UNCHANGED <<physVars, pluginVars, inputVars, engineVars>>

\* Scene.findEntity
findEntity(n) == allEntities[n]

\* Scene.update: every root in list order
RECURSIVE rootsUpdate(_, _)
rootsUpdate(i, st) ==
    IF i > Len(rootEntities) \/ ~st.ok THEN st
    ELSE rootsUpdate(i + 1, entityUpdate(rootEntities[i], st, 1))

SceneUpdate ==
    /\ updateLog' = rootsUpdate(1, [log |-> <<>>, ok |-> TRUE]).log
    /\ UNCHANGED <<entityVars, compVars, sceneVars>>
    /\ UNCHANGED <<physVars, pluginVars, inputVars, engineVars>>

\* -------------------------------------- Scene.update with acting components
\* Component subclasses whose update(deltaTime) removes their own entity:
\*   DetachSelf         this.entity.getParent()?.removeChild(this.entity)
\*   DestroySelf        this.entity.destroy()
\*   RemoveSelf         scene.removeEntity(this.entity)
\*   EngineDestroySelf  engine.destroyEntity(this.entity)
\* Every other component class has the empty Component.update.
Behaviours == {"DetachSelf", "DestroySelf", "RemoveSelf", "EngineDestroySelf"}

\* A component class whose update removes another component of its entity:
\*   RemoveB            this.entity.removeComponent(B)
Removers == {"RemoveB"}

\* Scene.unregisterEntity over the child lists kids
RECURSIVE unregisterEntityIn(_, _, _, _)
RECURSIVE unregisterChildrenIn(_, _, _, _, _)
unregisterEntityIn(kids, e, st, depth) ==
    IF ~st.ok THEN st
    ELSE IF depth > MaxStack THEN [st EXCEPT !.ok = FALSE]
    ELSE unregisterChildrenIn(kids, kids[e], 1, [st EXCEPT !.idx[st.nm[e]] = Null], depth)

unregisterChildrenIn(kids, list, i, st, depth) ==
    IF i > Len(list) \/ ~st.ok THEN st
    ELSE unregisterChildrenIn(kids, list, i + 1,
                              unregisterEntityIn(kids, list[i], st, depth + 1), depth)

\* The graph g in the middle of a pass: its root list, child lists, parent
\* fields, name index and registries; g.log lists the entities whose update
\* was invoked, g.ulog the components whose update was invoked, g.late
\* those whose update was invoked when their entity's registry no longer
\* held them.
\* Entity.removeChild(e) called on the parent of e
detachIn(g, e) ==
    IF g.par[e] # Null
    THEN LET r == removeChildIn(g.kids, g.par, g.par[e], e)
         IN [g EXCEPT !.kids = r.kids, !.par = r.par]
    ELSE g

\* Entity.destroy called on e
destroyIn(g, e) ==
    LET d == detachIn(g, e)
    IN [d EXCEPT !.comps[e] = <<>>, !.kids[e] = <<>>]

\* Scene.removeEntity(e)
removeEntityIn(g, e) ==
    LET index == IndexOf(g.roots, e) IN
    IF index > 0
    THEN [g EXCEPT !.roots = Splice(@, index),
                   !.idx = unregisterEntityIn(g.kids, e,
                               [idx |-> g.idx, nm |-> name, ok |-> TRUE], 1).idx]
    ELSE g

\* component.update(deltaTime) of the instance c
componentUpdate(c, g) ==
    LET e == compEntity[c]
        T == compType[c]
    IN IF T = "DetachSelf" THEN detachIn(g, e)
       ELSE IF T = "DestroySelf" THEN destroyIn(g, e)
       ELSE IF T = "RemoveSelf" THEN removeEntityIn(g, e)
       ELSE IF T = "EngineDestroySelf" THEN destroyIn(removeEntityIn(g, e), e)
       ELSE IF T = "RemoveB" THEN [g EXCEPT !.comps[e] = MapDelete(@, "B")]
       ELSE g

\* `for (const x of list)`: the array iterator reads the live array, its
\* length and its element at the running index, at every step
iterateLive(live, snapshot) == live

\* Entity.update: the components from the Array.from snapshot, then the
\* children from the live child list. On a forest no entity is destroyed
\* while its own child loop runs, so the array the loop reads is the
\* entity's current one throughout.
RECURSIVE passEntity(_, _, _)
RECURSIVE passComponents(_, _, _)
RECURSIVE passChildren(_, _, _, _, _)
passEntity(e, g, depth) ==
    IF ~g.ok THEN g
    ELSE IF depth > MaxStack THEN [g EXCEPT !.ok = FALSE]
    ELSE LET g1 == [g EXCEPT !.log = Append(@, e)] IN
         IF ~active[e] THEN g1
         ELSE LET g2 == passComponents(getComponentsIn(g1.comps[e]), 1, g1)
              IN passChildren(e, g2.kids[e], 1, g2, depth)

passComponents(cs, i, g) ==
    IF i > Len(cs) THEN g
    ELSE LET stored == cs[i] \in Range(getComponentsIn(g.comps[compEntity[cs[i]]]))
             called == [g EXCEPT !.ulog = Append(@, cs[i]),
                                 !.late = IF stored THEN @ ELSE Append(@, cs[i])]
         IN passComponents(cs, i + 1,
                           IF isEnabled[cs[i]] THEN componentUpdate(cs[i], called) ELSE g)

passChildren(e, snapshot, i, g, depth) ==
    LET list == iterateLive(g.kids[e], snapshot) IN
    IF i > Len(list) \/ ~g.ok THEN g
    ELSE passChildren(e, snapshot, i + 1, passEntity(list[i], g, depth + 1), depth)

\* Scene.update: `for (const entity of this.rootEntities)`
RECURSIVE passRoots(_, _, _)
passRoots(snapshot, i, g) ==
    LET list == iterateLive(g.roots, snapshot) IN
    IF i > Len(list) \/ ~g.ok THEN g
    ELSE passRoots(snapshot, i + 1, passEntity(list[i], g, 1))

\* the graph when a pass starts, and when it has ended
PassStart ==
    [roots |-> rootEntities, kids |-> children, par |-> parent, idx |-> allEntities,
     comps |-> components, log |-> <<>>, ulog |-> <<>>, late |-> <<>>, ok |-> TRUE]

PassEnd == passRoots(rootEntities, 1, PassStart)

\* Scene.update on a scene whose components act
SceneUpdateActing ==
    /\ rootEntities' = PassEnd.roots
    /\ allEntities' = PassEnd.idx
    /\ children' = PassEnd.kids
    /\ parent' = PassEnd.par
    /\ components' = PassEnd.comps
    /\ updateLog' = PassEnd.ulog
    /\ UNCHANGED <<name, active, compType, compEntity, isEnabled, nextComp, lastAdded>>
    /\ UNCHANGED <<physVars, pluginVars, inputVars, engineVars>>

\* Scene.clear
Clear ==
    /\ rootEntities' = <<>>
    /\ allEntities' = [n \in Names |-> Null]
    /\ UNCHANGED <<entityVars, compVars, updateLog>>
    /\ UNCHANGED <<physVars, pluginVars, inputVars, engineVars>>

\* ----------------------------------------------------------- InputManager
\* A listener runs only between frames: the page is single-threaded.
\* An edge set that marks every press, also the repeats of a held key
PressEdgeAlways(held, justPressed, x) == justPressed \cup {x}

\* The edge set after a press of x: x is marked only if it was not held
PressEdge(held, justPressed, x) ==
    IF x \notin held THEN justPressed \cup {x} ELSE justPressed

\* the 'keydown' listener
KeyDown(k) ==
    /\ pc = "idle"
    /\ keysJustPressed' = PressEdge(keysPressed, keysJustPressed, k)
    /\ keysPressed' = keysPressed \cup {k}
    /\ UNCHANGED <<keysJustReleased, mouseVars, pointerVars, graphVars, engineVars>>

\* An edge set that marks a release only of what was held
ReleaseEdgeIfHeld(held, justReleased, x) ==
    IF x \in held THEN justReleased \cup {x} ELSE justReleased

\* The edge set after a release of x: x is marked, held before or not
ReleaseEdge(held, justReleased, x) == justReleased \cup {x}

\* the 'keyup' listener
KeyUp(k) ==
    /\ pc = "idle"
    /\ keysJustReleased' = ReleaseEdge(keysPressed, keysJustReleased, k)
    /\ keysPressed' = keysPressed \ {k}
    /\ UNCHANGED <<keysJustPressed, mouseVars, pointerVars, graphVars, engineVars>>

\* the 'mousedown' listener
MouseDown(b) ==
    /\ pc = "idle"
    /\ mouseButtonsJustPressed' = PressEdge(mouseButtonsPressed, mouseButtonsJustPressed, b)
    /\ mouseButtonsPressed' = mouseButtonsPressed \cup {b}
    /\ UNCHANGED <<mouseButtonsJustReleased, keyVars, pointerVars, graphVars, engineVars>>

\* the 'mouseup' listener
MouseUp(b) ==
    /\ pc = "idle"
    /\ mouseButtonsJustReleased' =
           ReleaseEdge(mouseButtonsPressed, mouseButtonsJustReleased, b)
    /\ mouseButtonsPressed' = mouseButtonsPressed \ {b}
    /\ UNCHANGED <<mouseButtonsJustPressed, keyVars, pointerVars, graphVars, engineVars>>

\* a 'mouseout' listener that drops the touch points as well
mouseOutClearsTouches ==
    /\ mouseButtonsPressed' = {}
    /\ touches' = [t \in TouchIds |-> NoTouch]
    /\ UNCHANGED <<mouseButtonsJustPressed, mouseButtonsJustReleased, keyVars, mousePosition>>

\* the body of the 'mouseout' listener: this.mouseButtonsPressed.clear()
mouseOut ==
    /\ mouseButtonsPressed' = {}
    /\ UNCHANGED <<mouseButtonsJustPressed, mouseButtonsJustReleased, keyVars, pointerVars>>

\* the 'mouseout' listener
MouseOut ==
    /\ pc = "idle"
    /\ mouseOut
    /\ UNCHANGED <<graphVars, engineVars>>

\* the 'mousemove' listener
MouseMove(pt) ==
    /\ pc = "idle"
    /\ mousePosition' = pt
    /\ UNCHANGED <<touches, keyVars, mouseVars, graphVars, engineVars>>

\* the 'touchstart' and 'touchmove' listeners: every touch of the event
\* is stored under its identifier (ev: identifier -> position)
TouchStartOrMove(ev) ==
    /\ pc = "idle"
    /\ touches' = [t \in TouchIds |-> IF t \in DOMAIN ev THEN ev[t] ELSE touches[t]]
    /\ UNCHANGED <<mousePosition, keyVars, mouseVars, graphVars, engineVars>>

\* the 'touchend' listener: the changed touches are deleted
TouchEnd(changed) ==
    /\ pc = "idle"
    /\ touches' = [t \in TouchIds |-> IF t \in changed THEN NoTouch ELSE touches[t]]
    /\ UNCHANGED <<mousePosition, keyVars, mouseVars, graphVars, engineVars>>

\* the effect of InputManager.update() on the four edge sets
ClearEdges ==
    /\ keysJustPressed' = {}
    /\ keysJustReleased' = {}
    /\ mouseButtonsJustPressed' = {}
    /\ mouseButtonsJustReleased' = {}
    /\ UNCHANGED <<keysPressed, mouseButtonsPressed, pointerVars>>

\* InputManager.update() called between frames
InputUpdate ==
    /\ pc = "idle"
    /\ ClearEdges
    /\ UNCHANGED <<graphVars, engineVars>>

\* isKeyPressed, isKeyJustPressed, isKeyJustReleased
isKeyPressed(k) == k \in keysPressed
isKeyJustPressed(k) == k \in keysJustPressed
isKeyJustReleased(k) == k \in keysJustReleased

\* new InputManager(canvas): every set empty
InputInit ==
    /\ keysPressed = {} /\ keysJustPressed = {} /\ keysJustReleased = {}
    /\ mouseButtonsPressed = {} /\ mouseButtonsJustPressed = {}
    /\ mouseButtonsJustReleased = {}
    /\ mousePosition = [x |-> 0, y |-> 0]
    /\ touches = [t \in TouchIds |-> NoTouch]

\* the engine's inputManager field now holds a new InputManager
NewInputManager ==
    /\ keysPressed' = {} /\ keysJustPressed' = {} /\ keysJustReleased' = {}
    /\ mouseButtonsPressed' = {} /\ mouseButtonsJustPressed' = {}
    /\ mouseButtonsJustReleased' = {}
    /\ mousePosition' = [x |-> 0, y |-> 0]
    /\ touches' = [t \in TouchIds |-> NoTouch]

\* ------------------------------------------------------------- GameEngine
\* What initializeRenderer(containerId) leaves behind when the engine's
\* renderMode is mode and the page holds the canvases d:
\*   - the container is missing: it throws before anything changes;
\*   - the renderer's constructor appends its canvas, then asks for the
\*     drawing context; WebGLRenderer throws when there is none, with the
\*     canvas already in the page and no field of the engine assigned;
\*   - otherwise the renderer field of the mode and inputManager are
\*     assigned (the other renderer field keeps its value).
initializeRenderer(mode, containerId, d) ==
    LET old == [c2d |-> canvas2DRenderer, gl |-> webglRenderer, im |-> inputManager,
                dom |-> d, obj |-> nextObj, threw |-> FALSE]
        appended == [d EXCEPT ![containerId] = Append(@, nextObj)] IN
    IF containerId \notin containers THEN [old EXCEPT !.threw = TRUE]
    ELSE IF mode = "2d"
    THEN [old EXCEPT !.c2d = nextObj, !.im = nextObj, !.dom = appended, !.obj = nextObj + 1]
    ELSE IF ~webglOK
    THEN [old EXCEPT !.dom = appended, !.obj = nextObj + 1, !.threw = TRUE]
    ELSE [old EXCEPT !.gl = nextObj, !.im = nextObj, !.dom = appended, !.obj = nextObj + 1]

\* a guard that never takes the early return
isCurrentModeNever(mode) == FALSE

\* `if (mode === this.renderMode) return;`
isCurrentMode(mode) == mode = renderMode

\* a switch that puts a new, empty Scene in place of the engine's
switchNewScene ==
    /\ rootEntities' = <<>>
    /\ allEntities' = [n \in Names |-> Null]
    /\ UNCHANGED <<entityVars, compVars, updateLog, physVars, pluginVars>>

\* switchRenderMode has no statement that refers to this.scene or an entity
switchKeepsScene == UNCHANGED graphVars

\* GameEngine.switchRenderMode(mode), called between frames or by a
\* component while the scene updates
SwitchRenderMode(mode) ==
    /\ pc \in {"idle", "update"}
    /\ nextObj <= MaxObjs
    /\ IF isCurrentMode(mode)
       THEN /\ lastSwitch' = "same"
            /\ UNCHANGED <<renderMode, canvas2DRenderer, webglRenderer, inputManager,
                           nextObj, dom, inputVars>>
       ELSE LET removed == IF "game-container" \in containers /\ dom["game-container"] # <<>>
                           THEN [dom EXCEPT !["game-container"] = Tail(@)]
                           ELSE dom
                r == initializeRenderer(mode, "game-container", removed) IN
            /\ renderMode' = mode
            /\ canvas2DRenderer' = r.c2d
            /\ webglRenderer' = r.gl
            /\ inputManager' = r.im
            /\ nextObj' = r.obj
            /\ dom' = r.dom
            /\ lastSwitch' = IF r.threw THEN "threw" ELSE "returned"
            /\ IF r.im # inputManager
               THEN NewInputManager
               ELSE UNCHANGED inputVars
    /\ UNCHANGED <<containers, webglOK, engineContainer, timeVars, loopVars, now>>
    /\ switchKeepsScene

\* the top of gameLoop once `if (!this.isRunning) return` has passed:
\* elapsed time, and on to the scene update
beginIteration(fpsMark) ==
    /\ frameCount < MaxFrames \/ now - fpsMark >= FpsWindow
    /\ lastTime' = now
    /\ pc' = "update"
    /\ frameLog' = <<>>

\* a guard that never takes the early return
alreadyRunningNever == FALSE

\* `if (this.isRunning) return;`
alreadyRunning == isRunning

\* GameEngine.start(): sets the clock marks and runs gameLoop itself.
\* Called between frames, or by a component while the scene updates (there
\* only on a running engine: a gameLoop nested in a gameLoop is left out).
Start ==
    /\ pc \in {"idle", "update"}
    /\ lastStart' = IF isRunning THEN "running" ELSE "stopped"
    /\ IF alreadyRunning
       THEN UNCHANGED <<isRunning, lastTime, fpsUpdateTime, pc, frameLog>>
       ELSE /\ pc = "idle"
            /\ rafPending < MaxPending
            /\ isRunning' = TRUE
            /\ fpsUpdateTime' = now
            /\ beginIteration(now)
    /\ UNCHANGED <<frameCount, fps, rafPending, renderedBy, now, pageVars, rendererVars,
                   graphVars, inputVars>>

\* GameEngine.stop(), called between frames or by a component while the
\* scene updates
Stop ==
    /\ pc \in {"idle", "update"}
    /\ isRunning' = FALSE
    /\ UNCHANGED <<pc, rafPending, frameLog, renderedBy, lastStart, timeVars, now, pageVars,
                   rendererVars, graphVars, inputVars>>

\* a gameLoop that runs its body whether the engine is running or not
loopRunningAlways == TRUE

\* gameLoop's first line, `if (!this.isRunning) return;`
loopRunning == isRunning

\* the host runs a requested frame callback: gameLoop from its first line
FrameCallback ==
    /\ pc = "idle"
    /\ rafPending > 0
    /\ rafPending' = rafPending - 1
    /\ IF loopRunning
       THEN beginIteration(fpsUpdateTime)
       ELSE UNCHANGED <<lastTime, pc, frameLog>>
    /\ UNCHANGED <<isRunning, frameCount, fps, fpsUpdateTime, renderedBy, lastStart, now,
                   pageVars, rendererVars, graphVars, inputVars>>

\* the order of the steps of one gameLoop iteration
NextStepRenderFirst(step) ==
    CASE step = "update" -> "render"
      [] step = "render" -> "input"
      [] step = "input" -> "fps"
      [] step = "fps" -> "idle"

NextStep(step) ==
    CASE step = "update" -> "input"
      [] step = "input" -> "render"
      [] step = "render" -> "fps"
      [] step = "fps" -> "idle"

\* gameLoop: this.scene.update(deltaTime)
LoopSceneUpdate ==
    /\ pc = "update"
    /\ updateLog' = rootsUpdate(1, [log |-> <<>>, ok |-> TRUE]).log
    /\ frameLog' = Append(frameLog, "update")
    /\ pc' = NextStep("update")
    /\ UNCHANGED <<entityVars, compVars, sceneVars, physVars, pluginVars, isRunning,
                   rafPending, renderedBy, lastStart, timeVars, now, pageVars, rendererVars,
                   inputVars>>

\* gameLoop: this.inputManager.update()
LoopInputUpdate ==
    /\ pc = "input"
    /\ IF inputManager # Null THEN ClearEdges ELSE UNCHANGED inputVars
    /\ frameLog' = Append(frameLog, "input")
    /\ pc' = NextStep("input")
    /\ UNCHANGED <<isRunning, rafPending, renderedBy, lastStart, timeVars, now, pageVars,
                   rendererVars, graphVars>>

\* the renderer gameLoop hands the scene to: the 2D one whenever that
\* field is set, else the WebGL one
activeRenderer ==
    IF canvas2DRenderer # Null THEN canvas2DRenderer
    ELSE IF webglRenderer # Null THEN webglRenderer
    ELSE Null

\* gameLoop: render(this.scene)
LoopRender ==
    /\ pc = "render"
    /\ renderedBy' = activeRenderer
    /\ frameLog' = IF activeRenderer # Null THEN Append(frameLog, "render") ELSE frameLog
    /\ pc' = NextStep("render")
    /\ UNCHANGED <<isRunning, rafPending, lastStart, timeVars, now, pageVars, rendererVars,
                   graphVars, inputVars>>

\* gameLoop: the frame counter, then requestAnimationFrame(this.gameLoop)
LoopFps ==
    /\ pc = "fps"
    /\ rafPending < MaxPending
    /\ IF now - fpsUpdateTime >= FpsWindow
       THEN /\ fps' = frameCount + 1
            /\ frameCount' = 0
            /\ fpsUpdateTime' = now
       ELSE /\ frameCount' = frameCount + 1
            /\ UNCHANGED <<fps, fpsUpdateTime>>
    /\ rafPending' = rafPending + 1
    /\ pc' = NextStep("fps")
    /\ UNCHANGED <<isRunning, lastTime, frameLog, renderedBy, lastStart, now, pageVars,
                   rendererVars, graphVars, inputVars>>

\* time passes between frames
Tick ==
    /\ pc = "idle"
    /\ now < MaxTime
    /\ now' = now + 1
    /\ UNCHANGED <<pageVars, rendererVars, timeVars, loopVars, graphVars, inputVars>>

\* new GameEngine(containerId, mode) on a page with the containers present
EngineInitWith(mode, containerId, present, glOK) ==
    /\ containers = present
    /\ webglOK = glOK
    /\ engineContainer = containerId
    /\ dom = [c \in ContainerIds |-> IF c = containerId THEN <<1>> ELSE <<>>]
    /\ renderMode = mode
    /\ canvas2DRenderer = IF mode = "2d" THEN 1 ELSE Null
    /\ webglRenderer = IF mode = "3d" THEN 1 ELSE Null
    /\ inputManager = 1
    /\ nextObj = 2
    /\ lastSwitch = "none"
    /\ lastStart = "none"
    /\ isRunning = FALSE
    /\ lastTime = 0 /\ frameCount = 0 /\ fps = 0 /\ fpsUpdateTime = 0
    /\ now = 0
    /\ rafPending = 0
    /\ pc = "idle"
    /\ frameLog = <<>>
    /\ renderedBy = Null

\* the constructor returned: its container exists and, for '3d', WebGL works
EngineInit ==
    \E mode \in Modes, present \in SUBSET ContainerIds, glOK \in BOOLEAN :
        \E containerId \in present :
            /\ mode = "3d" => glOK
            /\ EngineInitWith(mode, containerId, present, glOK)

\* the engine of the examples: '2d' on 'game-container'
DefaultEngineInit == EngineInitWith("2d", "game-container", {"game-container"}, TRUE)

\* ------------------------------------------------- Vector2, Rigidbody2D
\* Numbers are fixed-point: Scale parts to the unit, so 980 stands for 9.8.
\* A product is rounded down to the grid.
Scale == 100
mul(a, b) == (a * b) \div Scale

\* new Vector2(x, y), Vector2.add, Vector2.multiply
Vector2(x, y) == [x |-> x, y |-> y]
add(u, v) == Vector2(u.x + v.x, u.y + v.y)
multiply(v, scalar) == Vector2(mul(v.x, scalar), mul(v.y, scalar))

\* the field initialisers of Rigidbody2D
DefaultMass == 100
DefaultFriction == 10
DefaultGravity == 980

\* the values the public fields and the arguments are drawn from
Masses == {DefaultMass, 200, 300}
Frictions == {0, DefaultFriction}
Gravities == {0, DefaultGravity}
Velocities == {Vector2(0, 0), Vector2(200, -100)}
Forces == {Vector2(1000, 0), Vector2(-300, 500)}
DeltaTimes == {50, 100}

\* an integration that moves the body by the velocity it had before the step
integrateExplicit(v, a, g, f, p, dt) ==
    LET a1 == [a EXCEPT !.y = @ + g]
        v1 == add(v, multiply(a1, dt))
        v2 == multiply(v1, Scale - f)
    IN [v |-> v2, p |-> add(p, multiply(v, dt))]

\* the body of Rigidbody2D.update past its two early returns: gravity into
\* the acceleration, the acceleration into the velocity, friction, then
\* transform.translate by the new velocity
integrate(v, a, g, f, p, dt) ==
    LET a1 == [a EXCEPT !.y = @ + g]
        v1 == add(v, multiply(a1, dt))
        v2 == multiply(v1, Scale - f)
    IN [v |-> v2, p |-> add(p, multiply(v2, dt))]

\* an update that integrates static bodies too
returnsEarlyNoTransformOnly == ~hasTransform

\* the two early returns of Rigidbody2D.update
returnsEarly == isStatic \/ ~hasTransform

\* Rigidbody2D.update(deltaTime)
RigidbodyUpdate(dt) ==
    /\ calls < MaxCalls
    /\ calls' = calls + 1
    /\ IF returnsEarly
       THEN UNCHANGED <<velocity, acceleration, position>>
       ELSE LET r == integrate(velocity, acceleration, gravity, friction, position, dt) IN
            /\ velocity' = r.v
            /\ position' = r.p
            /\ acceleration' = Vector2(0, 0)
    /\ UNCHANGED <<mass, friction, isStatic, gravity, hasTransform>>
    /\ UNCHANGED <<entityVars, compVars, sceneVars, updateLog, pluginVars, inputVars,
                   engineVars>>

\* a force taken as the acceleration, whatever the mass
forceAccelerationUnitMass(force, m) == force

\* `force.multiply(1 / this.mass)`: the reciprocal is rounded, then the product
forceAcceleration(force, m) == multiply(force, (Scale * Scale) \div m)

\* Rigidbody2D.applyForce(force)
ApplyForce(force) ==
    /\ calls < MaxCalls
    /\ calls' = calls + 1
    /\ acceleration' = add(acceleration, forceAcceleration(force, mass))
    /\ UNCHANGED <<velocity, position, mass, friction, isStatic, gravity, hasTransform>>
    /\ UNCHANGED <<entityVars, compVars, sceneVars, updateLog, pluginVars, inputVars,
                   engineVars>>

\* a Rigidbody2D with the given public fields, on an entity with or without
\* a Transform2D (whose position starts at the origin)
RigidbodyInitWith(v, m, f, g, static, transform) ==
    /\ velocity = v
    /\ acceleration = Vector2(0, 0)
    /\ mass = m
    /\ friction = f
    /\ isStatic = static
    /\ gravity = g
    /\ position = Vector2(0, 0)
    /\ hasTransform = transform
    /\ calls = 0

\* new Rigidbody2D() on an entity with a Transform2D
RigidbodyInit ==
    RigidbodyInitWith(Vector2(0, 0), DefaultMass, DefaultFriction, DefaultGravity, FALSE, TRUE)

\* ---------------------------------------------------------- PluginManager
PluginNames == {"p", "q"}
\* plugin objects: several may carry one name; the odd versions define the
\* init and destroy hooks, the even ones define neither
Plugins == [name : PluginNames, version : 1..NumVersions]
NoPlugin == [name |-> "", version |-> 0]
hasHooks(plugin) == plugin.version % 2 = 1
Event(type, plugin) == [type |-> type, plugin |-> plugin]

\* a test that finds no name registered
isRegisteredNever(n) == FALSE

\* this.plugins.has(name)
isRegistered(n) == plugins[n] # NoPlugin

\* PluginManager.register(plugin)
Register(plugin) ==
    /\ IF isRegistered(plugin.name)
       THEN /\ pluginThrew' = TRUE
            /\ emitted' = <<>>
            /\ UNCHANGED <<plugins, pluginOrder>>
       ELSE /\ pluginThrew' = FALSE
            /\ plugins' = [plugins EXCEPT ![plugin.name] = plugin]
            /\ pluginOrder' = Append(pluginOrder, plugin.name)
            /\ emitted' = <<Event("plugin:registered", plugin)>>
    /\ hookCalled' = "none"
    /\ UNCHANGED <<initialized, initAwaiting, unloadAwaiting, initCalls, initAllVars>>
    /\ UNCHANGED <<entityVars, compVars, sceneVars, updateLog, physVars, inputVars, engineVars>>

\* this.initialized.has(pluginName)
isInitialized(n) == n \in initialized

\* a delete that leaves the set as it is
deleteInitializedKeeps(n) == initialized

\* this.initialized.delete(pluginName)
deleteInitialized(n) == initialized \ {n}

\* PluginManager.init(pluginName) up to its await: the promise rejects for
\* an unknown name, resolves at once for an initialized one; a plugin with
\* an init hook has the hook invoked and the call suspended, one without
\* is marked initialized right away
PluginInitCall(n) ==
    LET plugin == plugins[n] IN
    /\ IF plugin = NoPlugin
       THEN /\ pluginThrew' = TRUE
            /\ emitted' = <<>>
            /\ hookCalled' = "none"
            /\ UNCHANGED <<initialized, initAwaiting, initCalls>>
       ELSE /\ pluginThrew' = FALSE
            /\ IF isInitialized(n)
               THEN /\ emitted' = <<>>
                    /\ hookCalled' = "none"
                    /\ UNCHANGED <<initialized, initAwaiting, initCalls>>
               ELSE IF hasHooks(plugin)
               THEN /\ initAwaiting[n] < MaxAwaiting
                    /\ initAwaiting' = [initAwaiting EXCEPT ![n] = @ + 1]
                    /\ initCalls' = [initCalls EXCEPT ![n] = @ + 1]
                    /\ hookCalled' = "init"
                    /\ emitted' = <<>>
                    /\ UNCHANGED initialized
               ELSE /\ initialized' = initialized \cup {n}
                    /\ emitted' = <<Event("plugin:initialized", plugin)>>
                    /\ hookCalled' = "none"
                    /\ UNCHANGED <<initAwaiting, initCalls>>
    /\ UNCHANGED <<plugins, pluginOrder, unloadAwaiting, initAllVars>>
    /\ UNCHANGED <<entityVars, compVars, sceneVars, updateLog, physVars, inputVars, engineVars>>

\* an init call resumes after its await
PluginInitResume(n) ==
    /\ initAwaiting[n] > 0
    /\ initAwaiting' = [initAwaiting EXCEPT ![n] = @ - 1]
    /\ initialized' = initialized \cup {n}
    /\ emitted' = <<Event("plugin:initialized", plugins[n])>>
    /\ UNCHANGED <<plugins, pluginOrder, unloadAwaiting, pluginThrew, hookVars, initAllVars>>
    /\ UNCHANGED <<entityVars, compVars, sceneVars, updateLog, physVars, inputVars, engineVars>>

\* initAll(): the loop body for the k-th key of this.plugins.keys(), a live
\* iterator in insertion order: the call this.init(key) up to its await, or
\* the end of the loop when the keys are exhausted
initAllAdvance(k) ==
    IF k > Len(pluginOrder)
    THEN /\ initAllPos' = 0
         /\ initAllWaiting' = FALSE
         /\ emitted' = <<>>
         /\ hookCalled' = "none"
         /\ UNCHANGED <<initialized, initCalls>>
    ELSE LET n == pluginOrder[k] IN
         /\ initAllPos' = k
         /\ IF isInitialized(n)
            THEN /\ initAllWaiting' = FALSE
                 /\ emitted' = <<>>
                 /\ hookCalled' = "none"
                 /\ UNCHANGED <<initialized, initCalls>>
            ELSE IF hasHooks(plugins[n])
            THEN /\ initAllWaiting' = TRUE
                 /\ initCalls[n] <= MaxAwaiting
                 /\ initCalls' = [initCalls EXCEPT ![n] = @ + 1]
                 /\ hookCalled' = "init"
                 /\ emitted' = <<>>
                 /\ UNCHANGED initialized
            ELSE /\ initAllWaiting' = FALSE
                 /\ initialized' = initialized \cup {n}
                 /\ emitted' = <<Event("plugin:initialized", plugins[n])>>
                 /\ hookCalled' = "none"
                 /\ UNCHANGED initCalls

\* PluginManager.initAll() up to its first await (one initAll in flight)
InitAllCall ==
    /\ initAllPos = 0
    /\ pluginThrew' = FALSE
    /\ initAllAdvance(1)
    /\ UNCHANGED <<plugins, pluginOrder, initAwaiting, unloadAwaiting>>
    /\ UNCHANGED <<entityVars, compVars, sceneVars, updateLog, physVars, inputVars, engineVars>>

\* the init call that initAll awaits resumes after its own await
InitAllInitResume ==
    /\ initAllPos > 0
    /\ initAllWaiting
    /\ initAllWaiting' = FALSE
    /\ initialized' = initialized \cup {pluginOrder[initAllPos]}
    /\ emitted' = <<Event("plugin:initialized", plugins[pluginOrder[initAllPos]])>>
    /\ UNCHANGED <<plugins, pluginOrder, initAwaiting, unloadAwaiting, pluginThrew, hookVars,
                   initAllPos>>
    /\ UNCHANGED <<entityVars, compVars, sceneVars, updateLog, physVars, inputVars, engineVars>>

\* initAll resumes after `await this.init(pluginName)` and goes on to the
\* next key
InitAllStep ==
    /\ initAllPos > 0
    /\ ~initAllWaiting
    /\ initAllAdvance(initAllPos + 1)
    /\ UNCHANGED <<plugins, pluginOrder, initAwaiting, unloadAwaiting, pluginThrew>>
    /\ UNCHANGED <<entityVars, compVars, sceneVars, updateLog, physVars, inputVars, engineVars>>

\* PluginManager.unload(pluginName) up to its await
Unload(n) ==
    LET plugin == plugins[n] IN
    /\ IF plugin = NoPlugin
       THEN /\ pluginThrew' = TRUE
            /\ emitted' = <<>>
            /\ hookCalled' = "none"
            /\ UNCHANGED <<initialized, unloadAwaiting, initCalls>>
       ELSE /\ pluginThrew' = FALSE
            /\ IF hasHooks(plugin)
               THEN /\ unloadAwaiting[n] < MaxAwaiting
                    /\ unloadAwaiting' = [unloadAwaiting EXCEPT ![n] = @ + 1]
                    /\ hookCalled' = "destroy"
                    /\ emitted' = <<>>
                    /\ UNCHANGED <<initialized, initCalls>>
               ELSE /\ initialized' = deleteInitialized(n)
                    /\ initCalls' = [initCalls EXCEPT ![n] = 0]
                    /\ hookCalled' = "none"
                    /\ emitted' = <<Event("plugin:unloaded", plugin)>>
                    /\ UNCHANGED unloadAwaiting
    /\ UNCHANGED <<plugins, pluginOrder, initAwaiting, initAllVars>>
    /\ UNCHANGED <<entityVars, compVars, sceneVars, updateLog, physVars, inputVars, engineVars>>

\* an unload call resumes after its await
UnloadResume(n) ==
    /\ unloadAwaiting[n] > 0
    /\ unloadAwaiting' = [unloadAwaiting EXCEPT ![n] = @ - 1]
    /\ initialized' = deleteInitialized(n)
    /\ initCalls' = [initCalls EXCEPT ![n] = 0]
    /\ emitted' = <<Event("plugin:unloaded", plugins[n])>>
    /\ UNCHANGED <<plugins, pluginOrder, initAwaiting, pluginThrew, hookCalled, initAllVars>>
    /\ UNCHANGED <<entityVars, compVars, sceneVars, updateLog, physVars, inputVars, engineVars>>

\* new PluginManager()
PluginManagerInit ==
    /\ plugins = [n \in PluginNames |-> NoPlugin]
    /\ initialized = {}
    /\ initAwaiting = [n \in PluginNames |-> 0]
    /\ unloadAwaiting = [n \in PluginNames |-> 0]
    /\ emitted = <<>>
    /\ pluginThrew = FALSE
    /\ pluginOrder = <<>>
    /\ initCalls = [n \in PluginNames |-> 0]
    /\ hookCalled = "none"
    /\ initAllPos = 0
    /\ initAllWaiting = FALSE

\* new Entity(nm[e]) for every entity e, new Scene()
InitWith(nm) ==
    /\ name = nm
    /\ active = [e \in Entities |-> TRUE]
    /\ children = [e \in Entities |-> <<>>]
    /\ parent = [e \in Entities |-> Null]
    /\ components = [e \in Entities |-> <<>>]
    /\ compType = [c \in CompIds |-> NoType]
    /\ compEntity = [c \in CompIds |-> Null]
    /\ isEnabled = [c \in CompIds |-> TRUE]
    /\ nextComp = 1
    /\ lastAdded = Null
    /\ rootEntities = <<>>
    /\ allEntities = [n \in Names |-> Null]
    /\ updateLog = <<>>

\* entities constructed with any names, shared or not
NamedInit ==
    /\ \E nm \in [Entities -> Names] : InitWith(nm)
    /\ RigidbodyInit
    /\ PluginManagerInit
    /\ InputInit
    /\ DefaultEngineInit

\* entities constructed with one name each, in turn
GraphOnlyInit == InitWith([e \in Entities |-> IF e % 2 = 1 THEN "a" ELSE "b"])

GraphInit ==
    GraphOnlyInit /\ RigidbodyInit /\ PluginManagerInit /\ InputInit /\ DefaultEngineInit

vars == <<graphVars, inputVars, engineVars>>

\* Scene.addEntity, removeEntity, clear with Entity.addChild, removeChild
IndexNext ==
    \/ \E e \in Entities, nm \in Names \cup {NoName} : AddEntity(e, nm)
    \/ \E e \in Entities : RemoveEntity(e)
    \/ \E p \in Entities, c \in Entities : AddChild(p, c)
    \/ \E p \in Entities, c \in Entities : RemoveChild(p, c)
    \/ Clear

IndexSpec == NamedInit /\ [][IndexNext]_vars

\* Scene.addEntity and Scene.removeEntity alone
AttachNext ==
    \/ \E e \in Entities, nm \in Names \cup {NoName} : AddEntity(e, nm)
    \/ \E e \in Entities : RemoveEntity(e)

AttachSpec == NamedInit /\ [][AttachNext]_vars

\* Entity.addChild, removeChild and destroy
TreeNext ==
    \/ \E p \in Entities, c \in Entities : AddChild(p, c)
    \/ \E p \in Entities, c \in Entities : RemoveChild(p, c)
    \/ \E e \in Entities : Destroy(e)

TreeSpec == GraphInit /\ [][TreeNext]_vars

\* Building a scene of entities with components, then Scene.update
UpdateNext ==
    \/ \E e \in Entities : AddEntity(e, NoName)
    \/ \E p \in Entities, c \in Entities : AddChild(p, c)
    \/ \E e \in Entities, b \in BOOLEAN : SetActive(e, b)
    \/ \E e \in Entities : AddComponent(e, "A")
    \/ SceneUpdate

UpdateSpec == GraphInit /\ [][UpdateNext]_vars

\* The component registry of the entities, with Entity.update
CompNext ==
    \/ \E e \in Hosts, T \in Types : AddComponent(e, T)
    \/ \E e \in Hosts, T \in Types : RemoveComponent(e, T)
    \/ \E e \in Hosts : Destroy(e)
    \/ \E e \in Hosts : EntityUpdate(e)

CompSpec == GraphInit /\ [][CompNext]_vars

\* the listeners and update() of one InputManager
InputNext ==
    \/ \E k \in Keys : KeyDown(k)
    \/ \E k \in Keys : KeyUp(k)
    \/ \E b \in Buttons : MouseDown(b)
    \/ \E b \in Buttons : MouseUp(b)
    \/ MouseOut
    \/ \E pt \in Points : MouseMove(pt)
    \/ \E S \in (SUBSET TouchIds) \ {{}} : \E ev \in [S -> Points] : TouchStartOrMove(ev)
    \/ \E S \in (SUBSET TouchIds) \ {{}} : TouchEnd(S)
    \/ InputUpdate

InputSpec == GraphInit /\ [][InputNext]_vars

\* the engine: start, stop, mode switches, frames, and one key on the keyboard
EngineNext ==
    \/ Start
    \/ Stop
    \/ \E mode \in Modes : SwitchRenderMode(mode)
    \/ FrameCallback
    \/ LoopSceneUpdate
    \/ LoopInputUpdate
    \/ LoopRender
    \/ LoopFps
    \/ Tick
    \/ KeyDown(1)
    \/ KeyUp(1)

EngineSpecInit ==
    GraphOnlyInit /\ RigidbodyInit /\ PluginManagerInit /\ InputInit /\ EngineInit

EngineSpec == EngineSpecInit /\ [][EngineNext]_vars

\* --------------------------------------------------------------- claims
\* The entities reachable from the set S through child lists
RECURSIVE Closure(_)
Closure(S) ==
    LET T == S \cup UNION {Range(children[e]) : e \in S}
    IN IF T = S THEN S ELSE Closure(T)

Reachable == Closure(Range(rootEntities))

\* C1: the name index holds exactly the entities reachable from the roots
\* through child lists, each under its current name.
C1_IndexIsReachableSet ==
    /\ \A e \in Reachable : allEntities[name[e]] = e
    /\ \A n \in Names : allEntities[n] # Null =>
           allEntities[n] \in Reachable /\ name[allEntities[n]] = n

\* The last position of the root list holding an entity named n, 0 if none
LastRootNamed(n) ==
    LET idx == {i \in DOMAIN rootEntities : name[rootEntities[i]] = n}
    IN IF idx = {} THEN 0 ELSE CHOOSE i \in idx : \A j \in idx : j <= i

\* C2: findEntity(n) is the most recently added of the attached entities
\* named n, and is null only when no attached entity is named n.
C2_FindMostRecentlyAdded ==
    \A n \in Names :
        /\ LastRootNamed(n) # 0 => findEntity(n) = rootEntities[LastRootNamed(n)]
        /\ findEntity(n) = Null => LastRootNamed(n) = 0

Count(s, x) == Cardinality({i \in DOMAIN s : s[i] = x})

\* C6: c is in p's child list exactly when c's parent is p, and at most once.
C6_ParentChildConsistent ==
    \A p \in Entities, c \in Entities :
        /\ (c \in Range(children[p])) <=> (parent[c] = p)
        /\ Count(children[p], c) <= 1

\* The entity whose registry holds component instance i
Holders(i) == {e \in Entities : i \in Range(getComponents(e))}

\* C7: a Scene.update pass invokes no component update on an inactive
\* entity of the scene nor on any entity of the subtree of such an entity.
C7_InactiveSubtreeSkipped ==
    [][SceneUpdate =>
        \A p \in Reachable : ~active[p] =>
            \A i \in Range(updateLog') : Holders(i) \cap Closure({p}) = {}]_vars

\* C8: getComponent(T) after addComponent(T) returns the instance that
\* addComponent returned; a second addComponent(T) makes getComponent(T)
\* return the new instance, and the replaced instance is then neither
\* returned by getComponent(T) nor contained in getComponents().  Until T
\* is added again or removed, getComponent(T) keeps returning that instance.
C8_GetReturnsLastAdded ==
    [][\A e \in Entities, T \in Types :
        /\ AddComponent(e, T) =>
              LET old == getComponent(e, T)
                  reg == components'[e] IN
              /\ lastAdded' # Null /\ lastAdded' # old
              /\ getComponentIn(reg, T) = lastAdded'
              /\ old # Null => old \notin Range(getComponentsIn(reg))
        /\ getComponentIn(components'[e], T) # getComponent(e, T) =>
              AddComponent(e, T) \/ RemoveComponent(e, T) \/ Destroy(e)]_vars

\* C8 witness: a type was added twice to an entity, the second instance is
\* the one getComponent returns and the first is out of the registry.
C8_Witness ==
    \E e \in Entities, T \in Types, i \in CompIds :
        /\ compType[i] = T /\ compEntity[i] = e
        /\ i < lastAdded /\ compType[lastAdded] = T /\ compEntity[lastAdded] = e
        /\ lastAdded = i + 1
        /\ getComponent(e, T) = lastAdded
        /\ i \notin Range(getComponents(e))

\* C9: a component instance refers to an entity only while that entity's
\* registry holds the instance (removal clears the back-reference).
C9_BackRefOnlyWhileStored ==
    \A i \in CompIds :
        compEntity[i] # Null => i \in Range(getComponents(compEntity[i]))

\* C10 as claimed: getComponents() lists the attached instances in the
\* order in which the instances were attached (instances are numbered in
\* the order of their construction by addComponent).
C10_InstanceAttachOrder ==
    \A e \in Entities : \A i, j \in DOMAIN components[e] :
        i < j => getComponents(e)[i] < getComponents(e)[j]

\* C10 as amended: getComponents() follows the insertion order of the type
\* keys: attaching a type that is absent appends the instance, attaching a
\* type that is present puts the new instance in the place of the one it
\* replaces, removing a type keeps the order of the rest; Entity.update
\* invokes the enabled components in the order of getComponents().
C10_KeyInsertionOrder ==
    [][\A e \in Entities :
        /\ \A T \in Types :
            /\ AddComponent(e, T) =>
                  LET old == getComponent(e, T)
                      was == getComponents(e) IN
                  getComponentsIn(components'[e]) =
                      IF old = Null THEN Append(was, lastAdded')
                      ELSE [i \in DOMAIN was |-> IF was[i] = old THEN lastAdded' ELSE was[i]]
            /\ RemoveComponent(e, T) =>
                  getComponentsIn(components'[e]) =
                      SelectSeq(getComponents(e), LAMBDA c : c # getComponent(e, T))
        /\ EntityUpdate(e) /\ children[e] = <<>> =>
              updateLog' = IF active[e]
                           THEN SelectSeq(getComponents(e), LAMBDA c : isEnabled[c])
                           ELSE <<>>]_vars

\* C10 witness: A, then B, then A again were attached to an entity and the
\* entity was updated: the new A instance comes first, B's instance second.
C10_Witness ==
    \E e \in Entities :
        /\ components[e] = <<[type |-> "A", inst |-> 3], [type |-> "B", inst |-> 2]>>
        /\ compType[1] = "A" /\ compEntity[1] = e
        /\ updateLog = <<3, 2>>

\* the renderer the engine holds for a mode
backendOf(mode) == IF mode = "2d" THEN canvas2DRenderer ELSE webglRenderer

\* C3: once switchRenderMode(m) has returned for an m other than the
\* current mode, a frame renders through the backend of mode m.
C3_RendersThroughSwitchedMode ==
    (lastSwitch = "returned" /\ pc = "fps") => renderedBy = backendOf(renderMode)

C5_JustPressedOneCycle ==
    [][\A k \in Keys :
        /\ (KeyDown(k) /\ ~isKeyPressed(k)) => isKeyJustPressed(k)' /\ isKeyPressed(k)'
        /\ (isKeyJustPressed(k) /\ ~InputUpdate) => isKeyJustPressed(k)'
        /\ InputUpdate => ~isKeyJustPressed(k)'
        /\ (isKeyPressed(k) /\ ~isKeyJustPressed(k) /\ isKeyPressed(k)') =>
              ~isKeyJustPressed(k)'
        /\ (isKeyPressed(k) /\ ~KeyUp(k)) => isKeyPressed(k)']_vars

\* C5 witness: a key was pressed and update() has run since; the key is
\* held, was never released, and is no longer just-pressed.
C5_Witness ==
    \E k \in Keys : isKeyPressed(k) /\ ~isKeyJustPressed(k) /\ ~isKeyJustReleased(k)

\* ------------------------------------------------- detaching a child
\* Entity.addChild and removeChild on entities with components, with
\* Entity.update
DetachNext ==
    \/ \E p \in Hosts, c \in Hosts : AddChild(p, c)
    \/ \E p \in Hosts, c \in Hosts : RemoveChild(p, c)
    \/ \E e \in Hosts : AddComponent(e, "A")
    \/ \E e \in Hosts : EntityUpdate(e)

DetachSpec == GraphInit /\ [][DetachNext]_vars

\* the component updates an Entity.update pass starting at p invokes
updatesFrom(p) == Range(entityUpdate(p, [log |-> <<>>, ok |-> TRUE], 1).log)

\* C11: after p.removeChild(c) for a c (other than p) in p's child list,
\* c.getParent() is null and an update pass that starts at p invokes no
\* component update on c nor on an entity of c's subtree.
C11_RemovedChildNotUpdated ==
    [][\A p \in Entities, c \in Entities :
        (RemoveChild(p, c) /\ c # p /\ c \in Range(children[p])) =>
            /\ parent'[c] = Null
            /\ \A i \in updatesFrom(p)' : Holders(i)' \cap Closure({c})' = {}]_vars

\* ------------------------------------------------- the render-mode switch
\* C12: switchRenderMode(m) with m the current render mode changes nothing:
\* the renderer instances, the canvases in the page, the InputManager
\* instance with its state, and the render mode are as before the call.
C12_SameModeSwitchIsNoOp ==
    [][\A m \in Modes :
        (SwitchRenderMode(m) /\ m = renderMode) =>
            UNCHANGED <<renderMode, canvas2DRenderer, webglRenderer, inputManager,
                        dom, nextObj, inputVars>>]_vars

\* C12 witness: the mode was switched, then switchRenderMode was called
\* with the mode the engine is in, while a key is held.
C12_Witness ==
    /\ lastSwitch = "same"
    /\ nextObj > 2
    /\ isKeyPressed(1)

\* an engine whose scene is being built (a root, a child of it with a
\* component, the child switched off and on), and mode switches
SwitchNext ==
    \/ AddEntity(1, NoName)
    \/ AddChild(1, 2)
    \/ AddComponent(2, "A")
    \/ \E b \in BOOLEAN : SetActive(2, b)
    \/ \E mode \in Modes : SwitchRenderMode(mode)

SwitchSpec == EngineSpecInit /\ [][SwitchNext]_vars

\* C13: switchRenderMode leaves the scene untouched: the root list, the
\* name index, and every entity's name, active flag, child list, parent
\* and component registry are the same after the call, whatever the mode.
C13_SwitchLeavesSceneUntouched ==
    [][(\E m \in Modes : SwitchRenderMode(m)) =>
        UNCHANGED <<rootEntities, allEntities, name, active, children, parent,
                    components>>]_vars

\* C13 witness: the mode of an engine has been switched whose scene holds
\* a root with a child, a component and an inactive entity.
C13_Witness ==
    /\ lastSwitch = "returned"
    /\ rootEntities # <<>>
    /\ \E e \in Entities : children[e] # <<>>
    /\ \E e \in Entities : components[e] # <<>>
    /\ \E e \in Entities : ~active[e]

\* C14: after switchRenderMode to the other mode on an engine constructed
\* on container C, C holds exactly one canvas, that of the new backend.
C14_SwitchStaysInContainer ==
    lastSwitch = "returned" => dom[engineContainer] = <<backendOf(renderMode)>>

\* C15: the held, just-pressed and just-released key sets seen through
\* getInput() right after switchRenderMode equal those right before it.
C15_SwitchKeepsInputState ==
    [][(\E m \in Modes : SwitchRenderMode(m)) => UNCHANGED keyVars]_vars

\* --------------------------------------------------------- start and stop
\* C16: the scheduler is either stopped or running, and start() on a
\* running engine is a no-op: no iteration begins, no frame callback is
\* requested, lastTime and fpsUpdateTime keep their values.
C16_StartWhileRunningIsNoOp ==
    [][/\ isRunning' \in BOOLEAN
       /\ (Start /\ isRunning) =>
              UNCHANGED <<isRunning, pc, frameLog, rafPending, timeVars>>]_vars

\* C16 witness: start() was called on a running engine that has counted a
\* frame and has a frame callback pending.
C16_Witness ==
    /\ lastStart = "running"
    /\ isRunning
    /\ pc = "idle"
    /\ rafPending > 0
    /\ frameCount > 0

\* C17: while the engine is stopped and start() is not called, control
\* does not enter gameLoop's body, so no Scene.update, InputManager.update
\* or render call is made other than those of an iteration that was in
\* flight when stop() was called; that iteration runs its steps in order.
C17_NoFrameAfterStop ==
    [][(~isRunning /\ ~Start) =>
          /\ pc = "idle" => pc' = "idle"
          /\ pc # "idle" => pc' \in {pc, NextStep(pc)}]_vars

\* C17 witness: the engine rendered, was stopped, and the frame callback
\* that was pending has run without starting an iteration.
C17_Witness ==
    /\ ~isRunning
    /\ pc = "idle"
    /\ rafPending = 0
    /\ renderedBy # Null

\* C18: at the end of an iteration the next frame callback is requested if
\* and only if stop() was not called during the iteration.
C18_RearmUnlessStopped ==
    [][LoopFps => rafPending' = IF isRunning THEN rafPending + 1 ELSE rafPending]_vars

\* ---------------------------------------------------------- Rigidbody2D
\* a Rigidbody2D whose public fields were set, then update and applyForce
PhysicsInit ==
    /\ GraphOnlyInit
    /\ PluginManagerInit
    /\ InputInit
    /\ DefaultEngineInit
    /\ \E v \in Velocities, m \in Masses, f \in Frictions, g \in Gravities,
          static \in BOOLEAN, transform \in BOOLEAN :
           RigidbodyInitWith(v, m, f, g, static, transform)

PhysicsNext ==
    \/ \E dt \in DeltaTimes : RigidbodyUpdate(dt)
    \/ \E force \in Forces : ApplyForce(force)

PhysicsSpec == PhysicsInit /\ [][PhysicsNext]_vars

\* C19: one update(dt) of a non-static Rigidbody2D whose entity has a
\* Transform2D yields v' = (v + (a + (0,g))*dt)*(1 - f), p' = p + v'*dt and
\* acceleration (0,0); with g = 9.8, v = a = 0 and dt = 1 the velocity and
\* the translation are (0, 9.8) for f = 0, and v' = (0, 8.82) for f = 0.1.
C19_IntegrationStep ==
    [][\A dt \in DeltaTimes :
        (RigidbodyUpdate(dt) /\ ~isStatic /\ hasTransform) =>
            LET vx == (((velocity.x + (acceleration.x * dt) \div Scale)) * (Scale - friction)) \div Scale
                vy == (((velocity.y + ((acceleration.y + gravity) * dt) \div Scale))
                          * (Scale - friction)) \div Scale
                still == velocity = Vector2(0, 0) /\ acceleration = Vector2(0, 0)
                             /\ gravity = 980 /\ dt = 100
            IN /\ velocity' = Vector2(vx, vy)
               /\ position' = Vector2(position.x + (vx * dt) \div Scale,
                                      position.y + (vy * dt) \div Scale)
               /\ acceleration' = Vector2(0, 0)
               /\ (still /\ friction = 0) =>
                      velocity' = Vector2(0, 980) /\ position' = add(position, Vector2(0, 980))
               /\ (still /\ friction = 10) => velocity' = Vector2(0, 882)]_vars

\* C19 witness: a body at rest with the default gravity 9.8 and friction
\* 0.1 has made one step of dt = 1 as its only call.
C19_Witness ==
    /\ calls = 1
    /\ ~isStatic /\ hasTransform
    /\ gravity = 980 /\ friction = 10
    /\ velocity = Vector2(0, 882)
    /\ position = Vector2(0, 882)
    /\ acceleration = Vector2(0, 0)

\* C20: after every Rigidbody2D.update call on a non-static body the
\* body's acceleration is (0,0), with or without a Transform2D on its entity.
C20_AccelerationResetEveryUpdate ==
    [][\A dt \in DeltaTimes :
        (RigidbodyUpdate(dt) /\ ~isStatic) => acceleration' = Vector2(0, 0)]_vars

\* C21 as claimed: applyForce(F) on a body of mass m adds exactly F/m (the
\* quotient, rounded once) to the acceleration and changes neither the
\* velocity nor the position.
C21_AddsExactQuotient ==
    [][\A force \in Forces :
        ApplyForce(force) =>
            /\ acceleration' = Vector2(acceleration.x + (force.x * Scale) \div mass,
                                       acceleration.y + (force.y * Scale) \div mass)
            /\ UNCHANGED <<velocity, position>>]_vars

\* C21 as amended: applyForce(F) adds F times the rounded reciprocal of the
\* mass to the acceleration and changes neither the velocity nor the
\* position; where the reciprocal is exact on the grid (mass 1 or 2) that
\* is F/m, so applyForce((10,0)) with mass 2 adds (5,0).
C21_AddsForceTimesReciprocal ==
    [][\A force \in Forces :
        ApplyForce(force) =>
            LET inv == (Scale * Scale) \div mass IN
            /\ acceleration' = Vector2(acceleration.x + (force.x * inv) \div Scale,
                                       acceleration.y + (force.y * inv) \div Scale)
            /\ UNCHANGED <<velocity, position>>
            /\ mass \in {100, 200} =>
                   acceleration' = Vector2(acceleration.x + (force.x * Scale) \div mass,
                                           acceleration.y + (force.y * Scale) \div mass)
            /\ (force = Vector2(1000, 0) /\ mass = 200) =>
                   acceleration' = add(acceleration, Vector2(500, 0))]_vars

\* C21 witness: applyForce((10,0)) was called twice on a body of mass 2;
\* the acceleration holds the sum (10,0) of the two contributions (5,0).
C21_Witness ==
    /\ calls = 2
    /\ mass = 200
    /\ acceleration = Vector2(1000, 0)
    /\ position = Vector2(0, 0)

\* C22: while isStatic is true, no update or applyForce call changes the
\* body's velocity or the position of the entity's Transform2D.
C22_StaticBodyStays ==
    [][isStatic => UNCHANGED <<velocity, position>>]_vars

\* C22 witness: a static body with gravity 9.8 and a velocity, on an entity
\* with a Transform2D, has had one applyForce((10,0)) and one update call.
C22_Witness ==
    /\ isStatic /\ hasTransform
    /\ gravity = DefaultGravity
    /\ velocity # Vector2(0, 0)
    /\ mass = 200
    /\ calls = 2
    /\ acceleration = Vector2(500, 0)

\* ----------------------------------------------------- release and mouseout
\* C23: a keyup of k (a mouseup of b) takes k (b) out of the held set and
\* puts it into the just-released set, held before the event or not, and
\* leaves the just-pressed set as it was.  (A release that changes nothing
\* is no step, so the edge set a release yields is also stated for every
\* state the event can arrive in.)
C23_ReleaseAlwaysMarks ==
    /\ [](/\ \A k \in Keys : k \in ReleaseEdge(keysPressed, keysJustReleased, k)
          /\ \A b \in Buttons :
                 b \in ReleaseEdge(mouseButtonsPressed, mouseButtonsJustReleased, b))
    /\ [][/\ \A k \in Keys :
            KeyUp(k) => /\ ~isKeyPressed(k)' /\ isKeyJustReleased(k)'
                        /\ keysPressed' = keysPressed \ {k}
                        /\ keysJustReleased' = keysJustReleased \cup {k}
                        /\ UNCHANGED keysJustPressed
          /\ \A b \in Buttons :
            MouseUp(b) => /\ mouseButtonsPressed' = mouseButtonsPressed \ {b}
                          /\ mouseButtonsJustReleased' = mouseButtonsJustReleased \cup {b}
                          /\ UNCHANGED mouseButtonsJustPressed]_vars

\* C23 witness: a key is just-released without being held or just-pressed
\* while the other key is held and just-pressed, and a button likewise is
\* just-released and not held.
C23_Witness ==
    /\ keysJustReleased = {1} /\ keysPressed = {2} /\ keysJustPressed = {2}
    /\ mouseButtonsJustReleased # {} /\ mouseButtonsPressed = {}

\* C24: a mouseout empties the set of held buttons and leaves the key sets,
\* the touch map, the pointer position and the two button edge sets as
\* they were.
C24_MouseOutClearsOnlyButtons ==
    [][MouseOut =>
          /\ mouseButtonsPressed' = {}
          /\ UNCHANGED <<keysPressed, keysJustPressed, keysJustReleased, touches,
                         mousePosition, mouseButtonsJustPressed,
                         mouseButtonsJustReleased>>]_vars

\* C24 witness: after a mouseout no button is held although one is still
\* marked just-pressed and not just-released; a key is held, a touch point
\* is down and the pointer has moved.
C24_Witness ==
    /\ mouseButtonsPressed = {}
    /\ mouseButtonsJustPressed # {} /\ mouseButtonsJustReleased = {}
    /\ keysPressed # {}
    /\ \E t \in TouchIds : touches[t] # NoTouch
    /\ mousePosition # [x |-> 0, y |-> 0]

\* ------------------------------------------------ removeEntity and destroy
\* C25: removeEntity(e) for a root e takes e out of the root list and
\* leaves neither e nor an entity of e's subtree findable, while every
\* other entity that was findable under its name and is still attached
\* stays findable; for an e that is no root, the root list and the index
\* stay as they are.
C25_RemoveUnregistersSubtreeOnly ==
    [][\A e \in Entities :
        RemoveEntity(e) =>
            IF e \in Range(rootEntities)
            THEN /\ rootEntities' = Splice(rootEntities, IndexOf(rootEntities, e))
                 /\ \A d \in Closure({e}), n \in Names : allEntities'[n] # d
                 /\ \A x \in Reachable' \ Closure({e}) :
                        findEntity(name[x]) = x => findEntity(name[x])' = x
            ELSE UNCHANGED <<rootEntities, allEntities>>]_vars

\* Entity.addChild, addComponent, active and destroy on the entities
DestroyNext ==
    \/ \E p \in Hosts, c \in Hosts : AddChild(p, c)
    \/ \E e \in Hosts : AddComponent(e, "A")
    \/ \E e \in Hosts, b \in BOOLEAN : SetActive(e, b)
    \/ \E e \in Hosts : Destroy(e)

DestroySpec == GraphInit /\ [][DestroyNext]_vars

\* C26: e.destroy() takes e out of its parent's child list and clears e's
\* parent (when e has one), empties e's registry and child list, and
\* changes neither the registry, the active flag nor the child list of a
\* former child of e.
C26_DestroyDetachesAndEmpties ==
    [][\A e \in Entities :
        Destroy(e) =>
            /\ parent[e] # Null =>
                   /\ e \notin Range(children'[parent[e]])
                   /\ parent'[e] = Null
            /\ components'[e] = <<>>
            /\ children'[e] = <<>>
            /\ \A c \in Range(children[e]) \ {e} :
                   /\ components'[c] = components[c]
                   /\ active'[c] = active[c]
                   /\ children'[c] = children[c]]_vars

\* --------------------------------------------------------- PluginManager
PluginNext ==
    \/ \E plugin \in Plugins : Register(plugin)
    \/ PluginInitCall("p")
    \/ PluginInitResume("p")
    \/ Unload("p")
    \/ UnloadResume("p")

PluginSpec == GraphInit /\ [][PluginNext]_vars

\* C27: register(p) for a name already registered throws, leaves the
\* plugin stored for the name and the initialized set as they were and
\* emits no event; the first registration of a name stores the plugin and
\* emits 'plugin:registered' once.
C27_DuplicateRegisterThrows ==
    [][\A plugin \in Plugins :
        Register(plugin) =>
            IF plugins[plugin.name] # NoPlugin
            THEN /\ pluginThrew'
                 /\ UNCHANGED <<plugins, initialized>>
                 /\ emitted' = <<>>
            ELSE /\ ~pluginThrew'
                 /\ plugins'[plugin.name] = plugin
                 /\ \A n \in PluginNames \ {plugin.name} : plugins'[n] = plugins[n]
                 /\ emitted' = <<Event("plugin:registered", plugin)>>
                 /\ UNCHANGED initialized]_vars

\* C27 witness: both names are registered and "p" is initialized, and the
\* last call (a register, no other call throws then) threw and emitted
\* nothing.
C27_Witness ==
    /\ \A n \in PluginNames : plugins[n] # NoPlugin
    /\ "p" \in initialized
    /\ pluginThrew
    /\ emitted = <<>>

C29_AtMostOnePendingFrame ==
    rafPending <= 1

\* ------------------------------------------------- passes that remove
\* whether e is in the root list or in a child list
isAttached(e) ==
    \/ e \in Range(rootEntities)
    \/ \E p \in Entities : e \in Range(children[p])

\* a forest of active entities is built, entity 1 the only parent; a host
\* without components gets one that removes its own entity; Scene.update runs
PassNext ==
    \/ \E e \in Entities : ~isAttached(e) /\ AddEntity(e, NoName)
    \/ \E c \in Entities \ {1} : ~isAttached(c) /\ AddChild(1, c)
    \/ \E e \in Hosts, T \in Behaviours : components[e] = <<>> /\ AddComponent(e, T)
    \/ SceneUpdateActing

PassSpec == GraphInit /\ [][PassNext]_vars

\* C30: in one Scene.update pass every active entity that is in the root
\* list or in a child list of the scene when the pass starts, and that the
\* pass does not remove, has its update invoked exactly once, whatever the
\* components updated in the pass remove.
C30_EveryRemainingEntityUpdatedOnce ==
    [][SceneUpdateActing =>
          \A e \in Reachable :
              (active[e] /\ e \in Reachable') => Count(PassEnd.log, e) = 1]_vars

\* ------------------------------------------------- cycles and duplicates
\* the entities below e: its children, their children and so on
Descendants(e) == Closure(Range(children[e]))

\* C31: the parent/child relation reachable from the roots never contains
\* a cycle, so the recursion of Scene.update ends without exhausting the
\* call stack.
C31_UpdateTerminates ==
    /\ \A e \in Reachable : e \notin Descendants(e)
    /\ rootsUpdate(1, [log |-> <<>>, ok |-> TRUE]).ok

\* the child lists that hold e
ParentsOf(e) == {p \in Entities : e \in Range(children[p])}

\* C32: the structure under the scene's roots is a forest: no entity is
\* twice in the root list, twice in a child list, in two child lists, or
\* both a root and a child; a Scene.update pass therefore invokes the
\* update of each component at most once.
C32_SceneIsForest ==
    /\ \A e \in Entities :
          /\ Count(rootEntities, e) <= 1
          /\ \A p \in Entities : Count(children[p], e) <= 1
          /\ Cardinality(ParentsOf(e)) <= 1
          /\ ~(e \in Range(rootEntities) /\ ParentsOf(e) # {})
    /\ \A i \in CompIds : Count(rootsUpdate(1, [log |-> <<>>, ok |-> TRUE]).log, i) <= 1

\* -------------------------------------------- GameEngine.destroyEntity
\* GameEngine.destroyEntity: this.scene.removeEntity(entity), then
\* entity.destroy()
DestroyEntity(e) ==
    LET g == destroyIn(removeEntityIn(PassStart, e), e) IN
    /\ rootEntities' = g.roots
    /\ allEntities' = g.idx
    /\ children' = g.kids
    /\ parent' = g.par
    /\ components' = g.comps
    /\ UNCHANGED <<name, active, compType, compEntity, isEnabled, nextComp, lastAdded,
                   updateLog>>
    /\ UNCHANGED <<physVars, pluginVars, inputVars, engineVars>>

\* a parent with one child, built as a forest of differently named
\* entities with components; entities are destroyed through the engine and
\* the scene is updated
DestroyEntityNext ==
    \/ ~isAttached(1) /\ AddEntity(1, NoName)
    \/ ~isAttached(2) /\ AddChild(1, 2)
    \/ \E e \in Hosts : AddComponent(e, "A")
    \/ \E e \in Hosts : DestroyEntity(e)
    \/ SceneUpdate

DestroyEntitySpec == GraphInit /\ [][DestroyEntityNext]_vars

\* C33: after destroyEntity(e), whether e was a root or a child of a
\* registered entity, findEntity returns e under no name, the root list
\* with the child lists does not reach e, and a Scene.update invokes no
\* component update of e.
C33_DestroyedEntityGone ==
    [][\A e \in Hosts :
        DestroyEntity(e) =>
            /\ \A n \in Names : findEntity(n)' # e
            /\ e \notin Reachable'
            /\ \A i \in Range(rootsUpdate(1, [log |-> <<>>, ok |-> TRUE]).log)' :
                   compEntity[i] # e]_vars

\* ----------------------------------------------- a switch that fails
\* C34: when the new backend cannot be constructed inside
\* switchRenderMode, the call throws and leaves renderMode, both renderer
\* fields, the canvases on the page and the InputManager with its state as
\* they were before the call.
C34_FailedSwitchChangesNothing ==
    [][\A mode \in Modes :
        (SwitchRenderMode(mode) /\ lastSwitch' = "threw") =>
            UNCHANGED <<renderMode, canvas2DRenderer, webglRenderer, inputManager, dom,
                        inputVars>>]_vars

\* ------------------------------------------------------ release edges
\* C35: whenever a key or a mouse button leaves the held set, by keyup,
\* mouseup or mouseout, it is in the matching just-released set after the
\* step (where it stays until the next update()).
C35_EveryReleaseRaisesEdge ==
    [][/\ \A k \in Keys :
              (k \in keysPressed /\ k \notin keysPressed') => k \in keysJustReleased'
       /\ \A b \in Buttons :
              (b \in mouseButtonsPressed /\ b \notin mouseButtonsPressed') =>
                  b \in mouseButtonsJustReleased']_vars

\* -------------------------------------------- components removed in a pass
\* one root entity whose components are added and removed between passes
\* and, by components that remove B or destroy their entity, during them
RemovalNext ==
    \/ ~isAttached(1) /\ AddEntity(1, NoName)
    \/ \E T \in {"B", "RemoveB", "DestroySelf"} : AddComponent(1, T)
    \/ RemoveComponent(1, "B")
    \/ SceneUpdateActing

RemovalSpec == GraphInit /\ [][RemovalNext]_vars

\* C36: no Entity.update invokes the update of a component instance that
\* removeComponent or destroy() has taken out of its entity's registry,
\* the pass in which another component's update made the removal included.
C36_RemovedComponentNotUpdated ==
    [][SceneUpdateActing => PassEnd.late = <<>>]_vars

\* ------------------------------------------------ init, initAll, unload
\* a plugin with hooks and one without are registered, initialized one by
\* one and through initAll, and unloaded, the calls overlapping at their
\* awaits
InitAllNext ==
    \/ Register([name |-> "p", version |-> 1])
    \/ Register([name |-> "q", version |-> 2])
    \/ \E n \in PluginNames : PluginInitCall(n)
    \/ \E n \in PluginNames : PluginInitResume(n)
    \/ InitAllCall
    \/ InitAllInitResume
    \/ InitAllStep
    \/ \E n \in PluginNames : Unload(n)
    \/ \E n \in PluginNames : UnloadResume(n)

InitAllSpec == GraphInit /\ [][InitAllNext]_vars

\* C37: between its registration and an unload, the init hook of a plugin
\* is invoked at most once, however init(name) and initAll() calls overlap.
C37_InitHookAtMostOnce ==
    \A n \in PluginNames : initCalls[n] <= 1

\* C38: the initialized names are always registered names; unload(name)
\* of a registered name calls the destroy hook of a plugin that has one,
\* leaves the plugin registered and, when it completes, has the name out of
\* the initialized set; init or unload of an unregistered name throws and
\* changes neither the registered plugins nor the initialized set.
C38_InitializedAreRegistered ==
    /\ [](initialized \subseteq {n \in PluginNames : plugins[n] # NoPlugin})
    /\ [][\A n \in PluginNames :
            /\ (Unload(n) /\ plugins[n] # NoPlugin) =>
                  /\ ~pluginThrew'
                  /\ plugins' = plugins
                  /\ IF hasHooks(plugins[n])
                     THEN hookCalled' = "destroy"
                     ELSE n \notin initialized'
            /\ UnloadResume(n) =>
                  /\ n \notin initialized'
                  /\ plugins' = plugins
            /\ ((PluginInitCall(n) \/ Unload(n)) /\ plugins[n] = NoPlugin) =>
                  /\ pluginThrew'
                  /\ UNCHANGED <<plugins, initialized>>]_vars

\* C38 witness: the unload of "p", a plugin with a destroy hook, has just
\* completed while an initAll is in flight: "p" is registered and not
\* initialized, "q" is initialized.
C38_Witness ==
    /\ emitted = <<Event("plugin:unloaded", plugins["p"])>>
    /\ plugins["p"] # NoPlugin /\ hasHooks(plugins["p"])
    /\ "p" \notin initialized
    /\ "q" \in initialized
    /\ initAllPos > 0

====
